---- MODULE Spec2Model ----
(***************************************************************************)
(* Model of the recipe pipelines of home-yum-python-api.                   *)
(*                                                                         *)
(*  - AddRecipeService (features/add_recipe/add_recipe_service.py): the    *)
(*    ingestion run started by create_recipe_log, one action per step of   *)
(*    the run (creation, transcription, scene analysis, structured recipe  *)
(*    generation, nutrition, return).                                      *)
(*  - ManualRecipeService (features/manual_recipe/                         *)
(*    manual_recipe_service.py): create_recipe_log,                        *)
(*    generate_initial_recipe, update_recipe and confirm_recipe, each call *)
(*    split at its awaits into the read of the log and the final write.    *)
(*                                                                         *)
(* Documents are Python dicts and are modelled as records whose domain is  *)
(* the set of keys present.  A Firestore collection is a sequence of       *)
(* documents; the generated document id is the index.                      *)
(***************************************************************************)
EXTENDS Integers, Sequences, FiniteSets, TLC

VARIABLES
    clock,          \* value the next datetime.utcnow() returns
    faults,         \* steps in which document-store operations have raised
    videos,         \* collection 'videos'
    recipes,        \* collection 'recipes'
    recipe_items,   \* collection 'recipe_items'
    nutrition,      \* collection 'nutrition'
    recipe_logs,    \* collection 'recipe_logs'
    run,            \* locals of the create_recipe_log call in progress
    runs_started,   \* create_recipe_log calls made so far
    manual_recipe_logs, \* collection 'manual_recipe_logs'
    calls,          \* ManualRecipeService calls suspended at an await
    calls_started,  \* ManualRecipeService calls made on a log so far
    last_call,      \* the ManualRecipeService call that ended last
    analyzer,       \* locals of the analyze_video call in progress
    whisper,        \* locals of the extract_transcript call in progress
    disk            \* scratch directories and files that exist

ingestion_vars == <<recipes, recipe_items, nutrition, recipe_logs, run,
                    runs_started>>

manual_vars == <<manual_recipe_logs, calls, calls_started, last_call>>

vars == <<clock, faults, videos, ingestion_vars, manual_vars, analyzer, whisper, disk>>

(***************************************************************************)
(* Bounds                                                                  *)
(***************************************************************************)
MaxRuns == 1

MaxFaults == 1

MaxManualLogs == 1

MaxCalls == 3

\* the numbers of ingredients a generated recipe may have
IngredientCounts == {1, 2}

(***************************************************************************)
(* Python dict helpers                                                     *)
(***************************************************************************)
EmptyDict == <<>>

\* bool(d) of a dict: true iff it has a key
Bool(d) == DOMAIN d # {}

\* d.get(k, default)
Get(d, k, default) == IF k \in DOMAIN d THEN d[k] ELSE default

\* {**d, **fields}: the keys of fields replace those of d
Merge(d, fields) == fields @@ d

(***************************************************************************)
(* Inputs                                                                  *)
(***************************************************************************)
UserId == "user1"

Urls == { [host |-> "youtu.be", path |-> "a"],
          [host |-> "example.com", path |-> "b"] }

\* the public URL download_video returns for the re-hosted copy: the storage
\* path is derived from the source video's title or id
StorageUrl(url) == [host |-> "storage", path |-> url.path]

\* VideoMetadataExtractor.get_domain
get_domain(url) ==
    IF url.host \in {"tiktok.com", "vm.tiktok.com"} THEN "tiktok"
    ELSE IF url.host \in {"youtube.com", "youtu.be"} THEN "youtube"
    ELSE IF url.host = "instagram.com" THEN "instagram"
    ELSE "unknown"

\* VideoMetadataExtractor.extract_metadata: the result dict, or {} for an
\* unknown platform or when the extraction fails (extracted = FALSE)
extract_metadata(url, extracted) ==
    IF get_domain(url) = "unknown" \/ ~extracted
    THEN EmptyDict
    ELSE [title |-> "title", description |-> "description",
          platform |-> get_domain(url)]

(***************************************************************************)
(* Document store                                                          *)
(***************************************************************************)
\* collection.document(): a fresh auto-generated id
NewId(coll) == Len(coll) + 1

\* doc_ref.set(doc) on the document with this id
SetDoc(coll, id, doc) ==
    IF id \in DOMAIN coll THEN [coll EXCEPT ![id] = doc] ELSE Append(coll, doc)

\* a list field assigned instead of united: the stored list is replaced
ArrayUnionOverwrite(list, elems) == elems

\* firestore.ArrayUnion(elems) applied to a stored list: each element not
\* already present is appended, in order
RECURSIVE ArrayUnion(_, _)
ArrayUnion(list, elems) ==
    IF elems = <<>> THEN list
    ELSE LET e == Head(elems)
             l == IF \E i \in DOMAIN list : list[i] = e
                  THEN list ELSE Append(list, e)
         IN ArrayUnion(l, Tail(elems))

\* doc_ref.set(fields) in the place of update: the document is replaced
UpdateDocAsSet(doc, fields, steps) ==
    Merge(fields, [processingSteps |-> steps])

\* doc_ref.update(fields) where fields.processingSteps, when present, is an
\* ArrayUnion transform: the named fields are replaced, the others kept
UpdateDoc(doc, fields, steps) ==
    Merge(doc, Merge(fields,
        [processingSteps |-> ArrayUnion(doc.processingSteps, steps)]))

\* collection('videos').where('videoUrl', '==', url): ids of the matches
VideosByUrl(url) == { i \in DOMAIN videos : videos[i].videoUrl = url }

\* ids a '.limit(1).get()' of that query may return; None when no match
None == 0

QueryVideoId(url) == IF VideosByUrl(url) = {} THEN {None} ELSE VideosByUrl(url)

(***************************************************************************)
(* AddRecipeService                                                        *)
(***************************************************************************)
Idle == [pc |-> "idle"]

InRun == run.pc \notin {"idle", "returned", "raised"}

\* AddRecipeService.save_video: the document written to 'videos'
save_video(user_id, metadata) ==
    [userId |-> user_id,
     videoTitle |-> Get(metadata, "title", ""),
     videoUrl |-> Get(metadata, "video_url", ""),
     source |-> Get(metadata, "platform", "unknown")]

\* the Recipe Log document create_recipe_log builds
InitialLog(user_id, video_id, video_url, metadata, now) ==
    [userId |-> user_id,
     videoId |-> video_id,
     videoUrl |-> video_url,
     platform |-> Get(metadata, "platform", "unknown"),
     status |-> "processing",
     updatedAt |-> now,
     metadata |-> [title |-> Get(metadata, "title", ""),
                   description |-> Get(metadata, "description", ""),
                   storage_url |-> Get(metadata, "video_url", "")],
     processingSteps |-> << [step |-> "metadata_extraction",
                             status |-> "completed",
                             timestamp |-> now,
                             success |-> Bool(metadata)] >>]

\* create_recipe_log up to the creation of the Recipe Log: metadata
\* extraction, re-hosting of the video, save_video, log_ref.set
StartRun(video_url, extracted, uploaded, fault) ==
    /\ ~InRun
    /\ runs_started < MaxRuns
    /\ fault # "none" => faults < MaxFaults
    /\ LET now == clock
           extractedMeta == extract_metadata(video_url, extracted)
           metadata == Merge(extractedMeta,
                         [video_url |-> IF uploaded THEN StorageUrl(video_url)
                                        ELSE video_url])
           video_id == NewId(videos)
           log_id == NewId(recipe_logs)
           log_data == InitialLog(UserId, video_id, video_url, metadata, now)
       IN /\ clock' = clock + 1
          /\ runs_started' = runs_started + 1
          /\ faults' = IF fault = "none" THEN faults ELSE faults + 1
          /\ videos' = IF fault = "video" THEN videos
                       ELSE SetDoc(videos, video_id, save_video(UserId, metadata))
          /\ recipe_logs' = IF fault = "none"
                            THEN SetDoc(recipe_logs, log_id, log_data)
                            ELSE recipe_logs
          /\ run' = IF fault = "none"
                    THEN [pc |-> "transcription",
                          video_url |-> video_url,
                          video_id |-> video_id,
                          log_id |-> log_id,
                          extracted |-> Bool(extractedMeta),
                          uploaded |-> uploaded,
                          log_data |-> log_data,
                          generate_calls |-> 0,
                          nutrition_calls |-> 0,
                          recipes0 |-> Len(recipes),
                          recipe_items0 |-> Len(recipe_items),
                          nutrition0 |-> Len(nutrition)]
                    ELSE [pc |-> "raised", video_url |-> video_url,
                          log_id |-> None]
    /\ UNCHANGED <<analyzer, whisper, disk, recipes, recipe_items, nutrition, manual_vars>>

\* the locals of a run once it ended: `response` is the dict returned
Returned(r, response) == Merge(r, [pc |-> "returned", response |-> response])

\* the except clause of create_recipe_log: HTTPException(500) to the caller
Raised(r) == Merge(r, [pc |-> "raised"])

\* create_recipe_log, lines 370-387: the response built from the locals
response_data(r, log_data) ==
    [logId |-> r.log_id,
     userId |-> log_data.userId,
     videoId |-> r.video_id,
     videoUrl |-> r.video_url,
     status |-> log_data.status,
     transcription |-> log_data.transcription,
     analysis |-> log_data.analysis,
     nutrition |-> Get(log_data, "nutrition", EmptyDict),
     processingSteps |-> log_data.processingSteps]

\* the condition without its test of the recipe text
HasRecipeIgnoringText(analysis) == Get(analysis, "success", FALSE)

\* the condition of lines 103 and 363: analysis succeeded and has recipe text
HasRecipe(analysis) ==
    Get(analysis, "success", FALSE) /\ Get(analysis, "recipe", "") # ""

\* process_transcription, try block: the transcription dict
transcription_data(transcript_result, now) ==
    [text |-> IF Bool(transcript_result) THEN transcript_result.text ELSE "",
     timestamp |-> now,
     success |-> Bool(transcript_result)]

\* the entry with the success flag of a step that did not raise
transcription_step_succeeded(transcript_result, now) ==
    [step |-> "transcription", status |-> "completed", timestamp |-> now,
     success |-> TRUE]

\* process_transcription, try block: the processingSteps entry
transcription_step(transcript_result, now) ==
    [step |-> "transcription", status |-> "completed", timestamp |-> now,
     success |-> Bool(transcript_result)]

\* the processingSteps entry an except clause of a process_* method appends
failed_step(name, now, e) ==
    [step |-> name, status |-> "failed", timestamp |-> now, error |-> e]

\* the dict an except clause of process_transcription builds
error_transcription(now, e) ==
    [text |-> "", timestamp |-> now, success |-> FALSE, error |-> e]

\* WhisperExtractor.extract_transcript: the transcript, or None (an empty
\* value) when the download or the transcription failed
extract_transcript(outcome) ==
    IF outcome = "text" THEN [text |-> "transcript"] ELSE EmptyDict

\* process_transcription.  outcome = "text": a transcript; "none":
\* extract_transcript returned None (it catches its own exceptions).
\* try_fault: the update of the try block raises and the except clause
\* records the failure; when handler_fault its own update raises too and
\* the run is aborted.
ProcessTranscription(outcome, try_fault, handler_fault) ==
    /\ run.pc = "transcription"
    /\ handler_fault => try_fault
    /\ LET nfault == IF try_fault THEN 1 ELSE 0
           raised == try_fault
           now == clock
           log == recipe_logs[run.log_id]
           transcript_result == extract_transcript(outcome)
           transcription ==
               IF ~raised THEN transcription_data(transcript_result, now)
               ELSE error_transcription(now, "error")
           step ==
               IF ~raised THEN transcription_step(transcript_result, now)
               ELSE failed_step("transcription", now, "error")
           r == Merge(run, [transcript |-> outcome,
                            transcription_raised |-> raised])
       IN /\ faults + nfault <= MaxFaults
          /\ clock' = clock + 1
          /\ faults' = faults + nfault
          /\ recipe_logs' =
               IF handler_fault THEN recipe_logs
               ELSE [recipe_logs EXCEPT ![run.log_id] =
                       UpdateDoc(log, [transcription |-> transcription,
                                       updatedAt |-> now], <<step>>)]
          /\ run' =
               IF handler_fault THEN Raised(r)
               ELSE Merge(r, [pc |-> "video_analysis",
                              log_data |-> Merge(run.log_data,
                                  [transcription |-> transcription])])
    /\ UNCHANGED <<analyzer, whisper, disk, videos, recipes, recipe_items, nutrition, runs_started, manual_vars>>

\* VideoRecipeAnalyzer.analyze_video: the result dict
analyze_video(outcome) ==
    CASE outcome = "recipe" ->
            [success |-> TRUE, scene_analyses |-> <<"scene 0">>,
             final_recipe |-> "recipe text"]
      [] outcome = "empty" ->
            [success |-> TRUE, scene_analyses |-> <<>>, final_recipe |-> ""]
      [] OTHER -> [success |-> FALSE, error |-> "error"]

\* process_video_analysis, try block: the analysis dict
analysis_data(analysis_result, now) ==
    [scenes |-> Get(analysis_result, "scene_analyses", <<>>),
     recipe |-> Get(analysis_result, "final_recipe", ""),
     timestamp |-> now,
     success |-> Get(analysis_result, "success", FALSE)]

\* process_video_analysis, try block: the processingSteps entry
video_analysis_step(analysis_result, now) ==
    [step |-> "video_analysis", status |-> "completed", timestamp |-> now,
     success |-> Get(analysis_result, "success", FALSE)]

\* the dict the except clause of process_video_analysis builds
error_analysis(now, e) ==
    [scenes |-> <<>>, recipe |-> "", timestamp |-> now, success |-> FALSE,
     error |-> e]

\* create_recipe_log, lines 367-387: no recipe came out of the analysis
RespondAnalyzed(r, analysis) ==
    LET log_data == Merge(r.log_data,
                        [analysis |-> analysis, status |-> "analyzed"])
    IN Returned(Merge(r, [log_data |-> log_data]), response_data(r, log_data))

\* process_video_analysis up to its first update of the log (lines 76-100)
\* and, when a store operation raises, its except clause (lines 143-165)
ProcessVideoAnalysis(outcome, try_fault, handler_fault) ==
    /\ run.pc = "video_analysis"
    /\ handler_fault => try_fault
    /\ LET nfault == IF try_fault THEN 1 ELSE 0
           now == clock
           log == recipe_logs[run.log_id]
           analysis_result == analyze_video(outcome)
           analysis ==
               IF ~try_fault THEN analysis_data(analysis_result, now)
               ELSE error_analysis(now, "error")
           step ==
               IF ~try_fault THEN video_analysis_step(analysis_result, now)
               ELSE failed_step("video_analysis", now, "error")
       IN /\ faults + nfault <= MaxFaults
          /\ faults' = faults + nfault
          /\ recipe_logs' =
               IF handler_fault THEN recipe_logs
               ELSE [recipe_logs EXCEPT ![run.log_id] =
                       UpdateDoc(log, [analysis |-> analysis,
                                       updatedAt |-> now], <<step>>)]
          /\ run' =
               LET r == Merge(run, [scene_result |-> analysis_result])
               IN  IF handler_fault THEN Raised(r)
                   ELSE IF HasRecipe(analysis)
                   THEN Merge(r, [pc |-> "recipe_generation",
                                  analysis |-> analysis, now |-> now])
                   ELSE RespondAnalyzed(r, analysis)
          /\ clock' = clock + 1
    /\ UNCHANGED <<analyzer, whisper, disk, videos, recipes, recipe_items, nutrition, runs_started, manual_vars>>

(***************************************************************************)
(* RecipeGenerator.generate_recipe_data                                    *)
(* (features/add_recipe/generate_recipe_items.py)                          *)
(***************************************************************************)
\* JSON values of stepOrder: an integer, a float given in halves (v/2), the
\* float NaN that json.loads accepts, or a string
IntVal(n) == [type |-> "int", v |-> n]

FloatVal(halves) == [type |-> "float", v |-> halves]

NaNVal == [type |-> "nan", v |-> 0]

StrVal == [type |-> "str", v |-> 0]

\* isinstance(x, (int, float))
IsNumber(x) == x.type \in {"int", "float", "nan"}

\* int(x) raises for NaN
IntRaises(x) == x.type = "nan"

\* int(x) of a number: truncation toward zero
ToInt(x) ==
    IF x.type = "int" THEN x.v
    ELSE IF x.v >= 0 THEN x.v \div 2 ELSE -((-x.v) \div 2)

required_recipe_keys == {"title", "summary", "additionalNotes"}

required_item_keys == {"stepOrder", "instruction"}

\* lines 96-132: the error the validation returns, "" when the response passes
RECURSIVE ItemsError(_)
ItemsError(items) ==
    IF items = <<>> THEN ""
    ELSE IF ~(required_item_keys \subseteq DOMAIN Head(items))
         THEN "Recipe item missing required keys"
    ELSE IF ~IsNumber(Head(items).stepOrder) THEN "Invalid stepOrder type"
    ELSE ItemsError(Tail(items))

ValidationError(response) ==
    IF ~response.parses THEN "Invalid JSON response"
    ELSE IF "recipe" \notin DOMAIN response.data THEN "Missing 'recipe' key"
    ELSE IF ~(required_recipe_keys \subseteq DOMAIN response.data.recipe)
         THEN "Recipe missing required keys"
    ELSE IF "recipeItems" \notin DOMAIN response.data
         THEN "Missing 'recipeItems' key"
    ELSE ItemsError(response.data.recipeItems)

\* lines 152-170: the loop over the items.  fail_at = k > 0: the k-th store
\* write of the call raises (the write of the Recipe is the first).  The
\* result holds the collection as the loop left it and the items returned;
\* ok is FALSE when int() or a write raised part-way.
RECURSIVE StoreItems(_, _, _, _, _, _)
StoreItems(items, k, recipe_id, fail_at, coll, out) ==
    IF k > Len(items) THEN [ok |-> TRUE, coll |-> coll, out |-> out]
    ELSE IF IntRaises(items[k].stepOrder) \/ fail_at = k + 1
         THEN [ok |-> FALSE, coll |-> coll, out |-> out]
    ELSE LET item_data ==
                 [recipeId |-> recipe_id,
                  stepOrder |-> ToInt(items[k].stepOrder),
                  instruction |-> items[k].instruction,
                  additionalDetails |-> Get(items[k], "additionalDetails", "")]
             id == NewId(coll)
         IN StoreItems(items, k + 1, recipe_id, fail_at,
                       SetDoc(coll, id, item_data),
                       Append(out, Merge(item_data, [recipeItemId |-> id])))

\* generate_recipe_data storing the Recipe as soon as the recipe header has
\* passed, the items being validated after it
generate_recipe_data_validating_late(response, video_id, now, fail_at, recipes0, items0) ==
    LET header_ok == /\ response.parses
                     /\ "recipe" \in DOMAIN response.data
                     /\ required_recipe_keys \subseteq DOMAIN response.data.recipe
    IN  IF ~header_ok
        THEN [result |-> [success |-> FALSE, error |-> ValidationError(response)],
              recipes |-> recipes0, recipe_items |-> items0]
        ELSE [result |-> [success |-> FALSE, error |-> "error"],
              recipes |-> SetDoc(recipes0, NewId(recipes0),
                                 [videoId |-> video_id,
                                  title |-> response.data.recipe.title,
                                  createdAt |-> now]),
              recipe_items |-> items0]

\* generate_recipe_data: the dict returned and the two collections after it
generate_recipe_data(response, video_id, now, fail_at, recipes0, items0) ==
    LET unchanged(e) == [result |-> [success |-> FALSE, error |-> e],
                         recipes |-> recipes0, recipe_items |-> items0]
    IN  IF ValidationError(response) # "" THEN unchanged(ValidationError(response))
        ELSE IF fail_at = 1 THEN unchanged("error")
        ELSE LET recipe_data ==
                     [videoId |-> video_id,
                      title |-> response.data.recipe.title,
                      summary |-> response.data.recipe.summary,
                      additionalNotes |-> response.data.recipe.additionalNotes,
                      createdAt |-> now]
                 recipe_id == NewId(recipes0)
                 stored == StoreItems(response.data.recipeItems, 1, recipe_id,
                                      fail_at, items0, <<>>)
             IN  [result |->
                      IF stored.ok
                      THEN [success |-> TRUE,
                            recipe |-> Merge(recipe_data,
                                             [recipeId |-> recipe_id]),
                            recipeItems |-> stored.out]
                      ELSE [success |-> FALSE, error |-> "error"],
                  recipes |-> SetDoc(recipes0, recipe_id, recipe_data),
                  recipe_items |-> stored.coll]

\* number of store writes generate_recipe_data attempts for a response
StoreWrites(response) ==
    IF ValidationError(response) # "" THEN 0
    ELSE 1 + Len(response.data.recipeItems)

RecipeItem(order) == [stepOrder |-> order, instruction |-> "instruction"]

RecipeHeader == [title |-> "title", summary |-> "summary",
                 additionalNotes |-> "notes"]

\* the model responses an ingestion run draws from
PipelineResponses ==
    { [parses |-> TRUE,
       data |-> [recipe |-> RecipeHeader,
                 recipeItems |-> <<RecipeItem(IntVal(1)), RecipeItem(IntVal(2))>>]],
      [parses |-> TRUE,
       data |-> [recipe |-> [title |-> "title", summary |-> "summary"],
                 recipeItems |-> <<RecipeItem(IntVal(1))>>]] }

\* the rest of process_video_analysis (lines 102-141): look the Video up by
\* the submitted URL, generate the structured recipe, record the step.
\* fault = "query": the look-up raises; "update": the update of the log
\* raises; in both cases the except clause (lines 143-165) runs, and when
\* handler_fault its own update raises and the run is aborted.
\* gen_fail_at: the store write inside generate_recipe_data that raises.
GenerateRecipe(response, found_id, gen_fail_at, fault, handler_fault) ==
    /\ run.pc = "recipe_generation"
    /\ found_id \in QueryVideoId(run.video_url)
    /\ fault = "none" => ~handler_fault
    /\ fault = "query" => gen_fail_at = 0
    /\ gen_fail_at \in 0..StoreWrites(response)
    /\ LET nfault == IF gen_fail_at > 0 \/ fault # "none" THEN 1 ELSE 0
           now == run.now
           log == recipe_logs[run.log_id]
           gen == IF fault = "query"
                  THEN [result |-> EmptyDict, recipes |-> recipes,
                        recipe_items |-> recipe_items]
                  ELSE generate_recipe_data(response, found_id, clock,
                                            gen_fail_at, recipes, recipe_items)
           recipe_result == gen.result
           analysis == IF recipe_result.success
                       THEN Merge(run.analysis,
                                  [structured_recipe |-> recipe_result])
                       ELSE run.analysis
           r == Merge(run, [generate_calls |-> IF fault = "query" THEN 0 ELSE 1,
                            lookup_id |-> found_id])
       IN /\ faults + nfault <= MaxFaults
          /\ faults' = faults + nfault
          /\ recipes' = gen.recipes
          /\ recipe_items' = gen.recipe_items
          /\ recipe_logs' =
               IF fault = "none"
               THEN [recipe_logs EXCEPT ![run.log_id] =
                       IF recipe_result.success
                       THEN UpdateDoc(log, [analysis |-> analysis,
                                            updatedAt |-> now],
                                <<[step |-> "recipe_generation",
                                   status |-> "completed", timestamp |-> now,
                                   success |-> TRUE]>>)
                       ELSE UpdateDoc(log, EmptyDict,
                                <<failed_step("recipe_generation", now,
                                              recipe_result.error)>>)]
               ELSE IF handler_fault THEN recipe_logs
               ELSE [recipe_logs EXCEPT ![run.log_id] =
                       UpdateDoc(log, [analysis |->
                                           error_analysis(now, "error"),
                                       updatedAt |-> now],
                                 <<failed_step("video_analysis", now,
                                               "error")>>)]
          /\ run' =
               IF fault = "none"
               THEN Merge(r, [pc |-> "nutrition", analysis |-> analysis,
                              log_data |-> Merge(run.log_data,
                                                 [analysis |-> analysis])])
               ELSE IF handler_fault THEN Raised(r)
               ELSE RespondAnalyzed(r, error_analysis(now, "error"))
          /\ clock' = clock + 1
    /\ UNCHANGED <<analyzer, whisper, disk, videos, nutrition, runs_started, manual_vars>>

(***************************************************************************)
(* NutritionAnalyzer.analyze_recipe_nutrition (video_processing/nutrition.py)*)
(***************************************************************************)
DEFAULT_SERVING_SIZE == 4

NutritionFields == {"calories", "fat", "carbs", "protein", "fiber"}

\* the value of the first ingredient in the place of the sum
SumFieldOfFirst(ingredients, field) ==
    IF ingredients = <<>> THEN 0 ELSE Head(ingredients)[field]

\* sum(ing[field] for ing in ingredients)
RECURSIVE SumField(_, _)
SumField(ingredients, field) ==
    IF ingredients = <<>> THEN 0
    ELSE Head(ingredients)[field] + SumField(Tail(ingredients), field)

\* analyze_recipe_nutrition: parsed = FALSE when one of the two model calls
\* failed; an ingredient without one of the five fields makes the summation
\* raise; otherwise the totals are the sums over the parsed ingredients
analyze_recipe_nutrition(parsed, ingredients) ==
    IF ~parsed THEN [success |-> FALSE, error |-> "error"]
    ELSE IF \E i \in DOMAIN ingredients :
                ~(NutritionFields \subseteq DOMAIN ingredients[i])
    THEN \* ing[field] raises KeyError, caught by the except clause
         [success |-> FALSE, error |-> "error"]
    ELSE [success |-> TRUE,
          serving_sizes |-> DEFAULT_SERVING_SIZE,
          nutrition_info |->
              [calories |-> SumField(ingredients, "calories"),
               fat |-> SumField(ingredients, "fat"),
               carbs |-> SumField(ingredients, "carbs"),
               protein |-> SumField(ingredients, "protein"),
               fiber |-> SumField(ingredients, "fiber"),
               ingredients |-> ingredients]]

Ingredient(name, n) ==
    [name |-> name, calories |-> 10 * n, fat |-> n, carbs |-> 2 * n,
     protein |-> 3 * n, fiber |-> n + 1]

\* the ingredient lists the nutrition model call of a run draws from
PipelineIngredients ==
    { <<Ingredient("rice", 1), Ingredient("egg", 2)>> }

\* the ingredient lists get_nutrition_info may parse: up to two ingredients,
\* one of them without nutrition fields
ParsedIngredients ==
    { Ingredient("rice", 1), Ingredient("egg", 2),
      [name |-> "salt", calories |-> 0] }

NutritionIngredientLists ==
    { <<>> } \cup { <<a>> : a \in ParsedIngredients }
        \cup { <<a, b>> : a \in ParsedIngredients, b \in ParsedIngredients }

\* process_nutrition, lines 185-196: the Nutrition Record
nutrition_data(video_id, nutrition_result, now) ==
    LET nutrition_info == Get(nutrition_result, "nutrition_info", EmptyDict)
    IN [videoId |-> video_id,
        calories |-> Get(nutrition_info, "calories", 0),
        fat |-> Get(nutrition_info, "fat", 0),
        carbs |-> Get(nutrition_info, "carbs", 0),
        protein |-> Get(nutrition_info, "protein", 0),
        fiber |-> Get(nutrition_info, "fiber", 0),
        ingredients |-> Get(nutrition_info, "ingredients", <<>>),
        serving_sizes |-> Get(nutrition_result, "serving_sizes", ""),
        createdAt |-> now]

\* process_nutrition, lines 204-216: the nutrition dict of the log
nutrition_log_data(video_id, nutrition_id, nutrition_result, now) ==
    IF Get(nutrition_result, "success", FALSE)
    THEN Merge(nutrition_data(video_id, nutrition_result, now),
               [nutritionId |-> nutrition_id, timestamp |-> now,
                success |-> TRUE])
    ELSE [serving_sizes |-> "", timestamp |-> now, success |-> FALSE,
          error |-> Get(nutrition_result, "error", "Unknown error")]

\* the status process_nutrition writes in the update of its try block
nutrition_status(nutrition_result) == "completed"

\* process_nutrition, lines 219-230: the fields of the update
nutrition_update(nutrition_dict, nutrition_result, now) ==
    [nutrition |-> nutrition_dict,
     status |-> nutrition_status(nutrition_result),
     updatedAt |-> now]

\* process_nutrition, lines 223-229: the processingSteps entry
nutrition_step(nutrition_result, now) ==
    [step |-> "nutrition_analysis",
     status |-> IF Get(nutrition_result, "success", FALSE)
                THEN "completed" ELSE "failed",
     timestamp |-> now,
     success |-> Get(nutrition_result, "success", FALSE),
     error |-> IF ~Get(nutrition_result, "success", FALSE)
               THEN Get(nutrition_result, "error", "None") ELSE "None"]

\* the dict the except clause of process_nutrition builds
error_nutrition(now, e) ==
    [serving_sizes |-> "", timestamp |-> now, success |-> FALSE, error |-> e]

\* create_recipe_log, lines 364-387: process_nutrition returned
RespondCompleted(r, nutrition_dict) ==
    LET log_data == Merge(r.log_data,
                        [nutrition |-> nutrition_dict, status |-> "completed"])
    IN Returned(Merge(r, [log_data |-> log_data]), response_data(r, log_data))

\* process_nutrition.  fault = "lookup": reading the log or querying the
\* Video raises; "set": writing the Nutrition Record raises; "update": the
\* update of the log raises.  The except clause then runs, and when
\* handler_fault its own update raises and the run is aborted.
ProcessNutrition(parsed, ingredients, found_id, fault, handler_fault) ==
    /\ run.pc = "nutrition"
    /\ fault = "none" => ~handler_fault
    /\ ~parsed => fault \in {"none", "update"}
    /\ LET nfault == IF fault # "none" THEN 1 ELSE 0
           now == clock
           log == recipe_logs[run.log_id]
           nutrition_result == analyze_recipe_nutrition(parsed, ingredients)
           stored == nutrition_result.success /\ fault \in {"none", "update"}
           nutrition_id == NewId(nutrition)
           nutrition_dict ==
               IF fault = "none"
               THEN nutrition_log_data(found_id, nutrition_id,
                                       nutrition_result, now)
               ELSE error_nutrition(now, "error")
           r == Merge(run, [nutrition_calls |-> 1,
                            nutrition_result |-> nutrition_result,
                            nutrition_id |-> IF stored THEN nutrition_id
                                             ELSE None])
       IN /\ found_id \in QueryVideoId(log.videoUrl)
          /\ faults + nfault <= MaxFaults
          /\ faults' = faults + nfault
          /\ nutrition' =
               IF stored
               THEN SetDoc(nutrition, nutrition_id,
                           nutrition_data(found_id, nutrition_result, now))
               ELSE nutrition
          /\ recipe_logs' =
               IF fault = "none"
               THEN [recipe_logs EXCEPT ![run.log_id] =
                       UpdateDoc(log,
                           nutrition_update(nutrition_dict, nutrition_result, now),
                           <<nutrition_step(nutrition_result, now)>>)]
               ELSE IF handler_fault THEN recipe_logs
               ELSE [recipe_logs EXCEPT ![run.log_id] =
                       UpdateDoc(log, [nutrition |-> nutrition_dict,
                                       updatedAt |-> now],
                                 <<failed_step("nutrition_analysis", now,
                                               "error")>>)]
          /\ run' = IF handler_fault THEN Raised(r)
                    ELSE RespondCompleted(r, nutrition_dict)
          /\ clock' = clock + 1
    /\ UNCHANGED <<analyzer, whisper, disk, videos, recipes, recipe_items, runs_started, manual_vars>>

(***************************************************************************)
(* ManualRecipeService and its generators (features/manual_recipe)         *)
(***************************************************************************)
Prompts == {"stir fry"}

\* the requests the event loop holds suspended at an await at one time
Workers == {"w1", "w2"}

\* the `updates` arguments of update_recipe
UpdateArgs ==
    { EmptyDict,
      [recipe_updates |-> "vegan"],
      [image_updates |-> "brighter"],
      [recipe_updates |-> "vegan", image_updates |-> "brighter"] }

\* the ingredient list of a generated recipe with n ingredients
RecipeIngredients(title, n) ==
    [i \in 1..n |-> [name |-> [dish |-> title, i |-> i], amount |-> 1,
                     amountDescription |-> "cup"]]

\* RecipeGenerator.generate_recipe (manual flow): the parsed JSON with
\* success, or the failure dict when the model call or the parsing failed
generate_recipe(prompt, ok, n) ==
    IF ok THEN [success |-> TRUE, title |-> <<prompt>>,
                description |-> "description",
                ingredients |-> RecipeIngredients(<<prompt>>, n)]
    ELSE [success |-> FALSE, error |-> "Invalid recipe format"]

\* RecipeGenerator.update_recipe: the recipe regenerated from the current
\* recipe dict and the change request
update_recipe_text(current_recipe, updates, ok) ==
    IF ok THEN [success |-> TRUE,
                title |-> Append(Get(current_recipe, "title", <<>>), updates),
                description |-> "description",
                ingredients |->
                    RecipeIngredients(
                        Append(Get(current_recipe, "title", <<>>), updates),
                        Len(Get(current_recipe, "ingredients", <<>>)))]
    ELSE [success |-> FALSE, error |-> "Invalid recipe format"]

\* ImageGenerator.generate_meal_image
generate_meal_image(prompt, ok) ==
    IF ok THEN [success |-> TRUE, url |-> <<"meal", prompt>>,
                prompt |-> <<prompt>>]
    ELSE [success |-> FALSE, error |-> "No image was generated"]

\* ImageGenerator.update_meal_image: current_image['prompt'] raises inside
\* the try block when the current image is a failure dict
update_meal_image(current_image, updates, ok) ==
    IF ok /\ "prompt" \in DOMAIN current_image
    THEN [success |-> TRUE,
          url |-> <<"meal_updated", Append(current_image.prompt, updates)>>,
          prompt |-> Append(current_image.prompt, updates)]
    ELSE [success |-> FALSE, error |-> "image error"]

\* a processingSteps entry of the manual flow
manual_step(name, now) ==
    [step |-> name, status |-> "completed", timestamp |-> now,
     success |-> TRUE]

NoCall == [op |-> "none"]

\* a call ended: what its caller observes
Ended(op, log_id, outcome, response) ==
    [op |-> op, log_id |-> log_id, outcome |-> outcome, response |-> response]

\* log_ref.get().exists
Exists(log_id) == log_id \in DOMAIN manual_recipe_logs

\* ManualRecipeService.create_recipe_log
ManualCreateRecipeLog(prompt, fault) ==
    /\ Len(manual_recipe_logs) < MaxManualLogs
    /\ fault => faults < MaxFaults
    /\ LET now == clock
           log_id == NewId(manual_recipe_logs)
           log_data == [userId |-> UserId, prompt |-> prompt,
                        status |-> "processing", createdAt |-> now,
                        updatedAt |-> now,
                        processingSteps |-> <<manual_step("initialization", now)>>]
       IN /\ clock' = clock + 1
          /\ faults' = IF fault THEN faults + 1 ELSE faults
          /\ manual_recipe_logs' =
               IF fault THEN manual_recipe_logs
               ELSE SetDoc(manual_recipe_logs, log_id, log_data)
          /\ last_call' =
               IF fault THEN Ended("create_recipe_log", None, "raised", EmptyDict)
               ELSE Ended("create_recipe_log", log_id, "returned",
                          [logId |-> log_id, status |-> "initialized"])
    /\ UNCHANGED <<analyzer, whisper, disk, videos, ingestion_vars, calls, calls_started>>

\* the first lines of generate_initial_recipe, update_recipe and
\* confirm_recipe: read the log, raise for a missing log, take the time; the
\* call then waits for its generators
BeginCall(op, log_id, updates) ==
    /\ calls_started < MaxCalls
    /\ Cardinality(calls) < Cardinality(Workers)
    /\ op = "update_recipe" \/ updates = EmptyDict
    /\ calls_started' = calls_started + 1
    /\ IF Exists(log_id)
       THEN /\ calls' = calls \cup
                  {[id |-> calls_started + 1, op |-> op, log_id |-> log_id,
                    log_data |-> manual_recipe_logs[log_id], now |-> clock,
                    updates |-> updates]}
            /\ clock' = clock + 1
            /\ UNCHANGED last_call
       ELSE /\ last_call' = Ended(op, log_id, "raised", EmptyDict)
            /\ UNCHANGED <<calls, clock>>
    /\ UNCHANGED <<analyzer, whisper, disk, faults, videos, ingestion_vars, manual_recipe_logs>>

\* generate_initial_recipe, lines 81-109: both generations joined, one update
EndGenerateInitialRecipe(c, recipe_ok, n, image_ok, fault) ==
    /\ c \in calls
    /\ c.op = "generate_initial_recipe"
    /\ fault => faults < MaxFaults
    /\ LET recipe_result == generate_recipe(c.log_data.prompt, recipe_ok, n)
           image_result == generate_meal_image(c.log_data.prompt, image_ok)
           update_data == [recipe |-> recipe_result,
                           mealImage |-> image_result,
                           status |-> "initial_generated",
                           updatedAt |-> c.now]
       IN /\ manual_recipe_logs' =
               IF fault THEN manual_recipe_logs
               ELSE [manual_recipe_logs EXCEPT ![c.log_id] =
                       UpdateDoc(@, update_data,
                                 <<manual_step("initial_generation", c.now)>>)]
          /\ last_call' =
               IF fault THEN Ended(c.op, c.log_id, "raised", EmptyDict)
               ELSE Ended(c.op, c.log_id, "returned",
                          [logId |-> c.log_id, recipe |-> recipe_result,
                           mealImage |-> image_result,
                           status |-> "initial_generated"])
    /\ faults' = IF fault THEN faults + 1 ELSE faults
    /\ calls' = calls \ {c}
    /\ UNCHANGED <<analyzer, whisper, disk, clock, videos, ingestion_vars, calls_started>>

\* the document the call read at its start written back with the update
write_back_log_data(stored, log_data, update_data, steps) ==
    UpdateDoc(log_data, update_data, steps)

\* update_recipe, line 163: log_ref.update(update_data) changes the stored
\* document, whatever log_data the call read before its awaits
log_ref_update(stored, log_data, update_data, steps) ==
    UpdateDoc(stored, update_data, steps)

\* every field of the log written, whether or not the call regenerated it
update_recipe_data_all_fields(now, recipe_result, image_result) ==
    [updatedAt |-> now, recipe |-> recipe_result, mealImage |-> image_result]

\* update_recipe, lines 148-161: the fields of the update, a regenerated
\* value only when it is truthy
update_recipe_data(now, recipe_result, image_result) ==
    Merge(Merge([updatedAt |-> now],
                IF Bool(recipe_result)
                THEN [recipe |-> recipe_result] ELSE EmptyDict),
          IF Bool(image_result)
          THEN [mealImage |-> image_result] ELSE EmptyDict)

\* update_recipe, lines 131-170.  log_data['recipe'] and log_data['mealImage']
\* raise KeyError for a log without them: before the update when the key is
\* an argument of a regeneration, after the update when it is only read for
\* the response.
EndUpdateRecipe(c, recipe_ok, image_ok, fault) ==
    /\ c \in calls
    /\ c.op = "update_recipe"
    /\ fault => faults < MaxFaults
    /\ LET log_data == c.log_data
           wants_recipe == "recipe_updates" \in DOMAIN c.updates
           wants_image == "image_updates" \in DOMAIN c.updates
           key_error_before ==
               \/ wants_recipe /\ "recipe" \notin DOMAIN log_data
               \/ wants_image /\ "mealImage" \notin DOMAIN log_data
           recipe_result ==
               IF wants_recipe
               THEN update_recipe_text(log_data.recipe,
                                       c.updates.recipe_updates, recipe_ok)
               ELSE EmptyDict
           image_result ==
               IF wants_image
               THEN update_meal_image(log_data.mealImage,
                                      c.updates.image_updates, image_ok)
               ELSE EmptyDict
           update_data == update_recipe_data(c.now, recipe_result, image_result)
           written == ~key_error_before /\ ~fault
           key_error_after ==
               \/ ~Bool(recipe_result) /\ "recipe" \notin DOMAIN log_data
               \/ ~Bool(image_result) /\ "mealImage" \notin DOMAIN log_data
       IN /\ key_error_before => ~fault
          /\ ~wants_recipe => recipe_ok
          /\ ~wants_image => image_ok
          /\ manual_recipe_logs' =
               IF written
               THEN [manual_recipe_logs EXCEPT ![c.log_id] =
                       log_ref_update(@, log_data, update_data,
                           <<manual_step("update_generation", c.now)>>)]
               ELSE manual_recipe_logs
          /\ last_call' =
               IF written /\ ~key_error_after
               THEN Ended(c.op, c.log_id, "returned",
                      [logId |-> c.log_id,
                       recipe |-> IF Bool(recipe_result) THEN recipe_result
                                  ELSE log_data.recipe,
                       mealImage |-> IF Bool(image_result) THEN image_result
                                     ELSE log_data.mealImage,
                       status |-> "updated"])
               ELSE Ended(c.op, c.log_id, "raised", EmptyDict)
    /\ faults' = IF fault THEN faults + 1 ELSE faults
    /\ calls' = calls \ {c}
    /\ UNCHANGED <<analyzer, whisper, disk, clock, videos, ingestion_vars, calls_started>>

\* ManualNutritionAnalyzer.analyze_recipe: the validated JSON with success,
\* or the failure dict
analyze_recipe(recipe_data, ok) ==
    IF ok THEN [success |-> TRUE, calories |-> 100, fat |-> 10, carbs |-> 20,
                protein |-> 30, fiber |-> 5,
                ingredients |-> Get(recipe_data, "ingredients", <<>>)]
    ELSE [success |-> FALSE, error |-> "Invalid nutrition data format"]

\* ImageGenerator.generate_ingredient_images.  outcome = "all": an image for
\* every ingredient; "skipped": the model returned no image for the first
\* ingredient, which is left out; "error": a generation raised and the
\* outer except clause returns []
RECURSIVE IngredientImages(_, _, _)
IngredientImages(ingredients, k, skip_first) ==
    IF k > Len(ingredients) THEN <<>>
    ELSE LET rest == IngredientImages(ingredients, k + 1, skip_first)
         IN IF skip_first /\ k = 1 THEN rest
            ELSE <<[ingredientName |-> ingredients[k].name,
                    url |-> <<"ingredient", ingredients[k].name>>,
                    order |-> k - 1]>> \o rest

generate_ingredient_images(ingredients, outcome) ==
    IF outcome = "error" THEN <<>>
    ELSE IngredientImages(ingredients, 1, outcome = "skipped")

\* VideoCreator.__init__
duration_per_image == 1

\* VideoCreator.upload_to_supabase: the public URL of the uploaded slideshow
SlideshowUrl(n) == [host |-> "storage", path |-> "recipe_videos", n |-> n]

\* VideoCreator.create_video_entry: the document written to 'videos'
create_video_entry(user_id, video_url, recipe_data) ==
    [userId |-> user_id,
     videoTitle |-> <<"Recipe", recipe_data.title>>,
     mealName |-> recipe_data.title,
     videoUrl |-> video_url,
     thumbnailUrl |-> recipe_data.mealImage.url,
     duration |-> Len(recipe_data.ingredients) + 1,
     source |-> "manual_recipe"]

\* VideoCreator.create_slideshow: the result dict and 'videos' after it.
\* assembled = FALSE: a download, ffmpeg or the upload failed; store_fault:
\* the write of the Video raises.  Every exception ends in the failure dict.
create_slideshow(ingredient_images, final_image, user_id, recipe_data, assembled, store_fault, n, videos0) ==
    IF "url" \notin DOMAIN final_image \/ ~assembled \/ store_fault
    THEN [result |-> [success |-> FALSE, error |-> "slideshow error"],
          videos |-> videos0]
    ELSE LET video_url == SlideshowUrl(n)
             video_id == NewId(videos0)
             \* the hero image, the ingredient images, the hero image again
             local_image_paths == <<final_image.url>>
                                    \o [i \in DOMAIN ingredient_images |->
                                            ingredient_images[i].url]
                                    \o <<final_image.url>>
         IN [result |-> [success |-> TRUE, video_url |-> video_url,
                         video_id |-> video_id,
                         duration |-> Len(local_image_paths) * duration_per_image],
             videos |-> SetDoc(videos0, video_id,
                               create_video_entry(user_id, video_url, recipe_data))]

\* confirm_recipe, lines 192-253.  fault = "video": the write of the Video
\* raises inside create_slideshow; "update": the final update of the log
\* raises.
EndConfirmRecipe(c, nutrition_ok, images, assembled, fault) ==
    /\ c \in calls
    /\ c.op = "confirm_recipe"
    /\ fault # "none" => faults < MaxFaults
    /\ LET log_data == c.log_data
           now == c.now
           key_error ==
               \/ "recipe" \notin DOMAIN log_data
               \/ "ingredients" \notin DOMAIN log_data.recipe
               \/ "mealImage" \notin DOMAIN log_data
               \/ "title" \notin DOMAIN log_data.recipe
           nutrition_result == analyze_recipe(log_data.recipe, nutrition_ok)
           ingredient_images ==
               generate_ingredient_images(log_data.recipe.ingredients, images)
           slideshow ==
               create_slideshow(ingredient_images, log_data.mealImage,
                   log_data.userId,
                   [title |-> log_data.recipe.title,
                    description |-> log_data.recipe.description,
                    mealImage |-> log_data.mealImage,
                    ingredients |-> log_data.recipe.ingredients],
                   assembled, fault = "video", c.id, videos)
           video_result == slideshow.result
           video == [videoId |-> video_result.video_id,
                     videoTitle |-> <<"Recipe", log_data.recipe.title>>,
                     mealName |-> log_data.recipe.title,
                     videoUrl |-> video_result.video_url,
                     thumbnailUrl |-> log_data.mealImage.url,
                     duration |-> video_result.duration,
                     uploadedAt |-> now,
                     source |-> "manual_recipe"]
           final_update == [videoId |-> video_result.video_id,
                            nutrition |-> nutrition_result,
                            ingredientImages |-> ingredient_images,
                            video |-> video,
                            status |-> "completed",
                            updatedAt |-> now]
       IN IF key_error
          THEN /\ fault = "none"
               /\ last_call' = Ended(c.op, c.log_id, "raised", EmptyDict)
               /\ UNCHANGED <<videos, manual_recipe_logs>>
          ELSE /\ videos' = slideshow.videos
               /\ IF video_result.success /\ fault = "none"
                  THEN /\ manual_recipe_logs' =
                            [manual_recipe_logs EXCEPT ![c.log_id] =
                               UpdateDoc(@, final_update,
                                   <<manual_step("final_generation", now)>>)]
                       /\ last_call' = Ended(c.op, c.log_id, "returned",
                              [logId |-> c.log_id,
                               recipe |-> log_data.recipe,
                               mealImage |-> log_data.mealImage,
                               status |-> "completed",
                               video |-> video])
                  ELSE /\ last_call' = Ended(c.op, c.log_id, "raised", EmptyDict)
                       /\ UNCHANGED manual_recipe_logs
    /\ faults' = IF fault # "none" THEN faults + 1 ELSE faults
    /\ calls' = calls \ {c}
    /\ UNCHANGED <<analyzer, whisper, disk, clock, ingestion_vars, calls_started>>

(***************************************************************************)
(* VideoSceneExtractor (video_processing/scene_extractor.py) and           *)
(* VideoRecipeAnalyzer (video_processing/video_recipe_analyzer.py)         *)
(***************************************************************************)
MaxScenes == 3

\* the frames a video yields, in the order of its scenes
Frames == <<"frame a", "frame b", "frame c", "frame d">>

\* extract_scenes, lines 128-134: one scene of the video
scene_info(i) ==
    [scene_number |-> i, start_time |-> i, end_time |-> i + 1,
     image_data |-> Frames[i + 1]]

\* a scratch path: a directory made by mkdtemp (file = "") or a file in it;
\* the still images of the scenes are output/scene_NNN.jpg, id = NNN
Path(dir, id, file) == [dir |-> dir, id |-> id, file |-> file]

\* shutil.rmtree(dir): the directory and the files in it are gone
rmtree(paths, dir) ==
    { p \in paths : ~(p.dir = dir.dir /\ p.id = dir.id) }

\* extract_scenes, lines 104-138: the scenes of a video in which n scenes
\* were detected.  A scene whose first frame cannot be read or encoded
\* (its index is in unreadable) is left out; the others keep the index
\* of enumerate(scene_list) as scene_number.
RECURSIVE extract_scenes(_, _, _)
extract_scenes(i, n, unreadable) ==
    IF i >= n THEN <<>>
    ELSE IF i \in unreadable THEN extract_scenes(i + 1, n, unreadable)
    ELSE <<scene_info(i)>> \o extract_scenes(i + 1, n, unreadable)

\* get_video_scenes: the scenes of a video of n scenes.  A download or a
\* detection that raises is caught by extract_scenes (lines 140-142) and the
\* empty list is returned, as for a video without scenes (lines 98-100).
get_video_scenes(extraction, n, unreadable) ==
    IF extraction = "raises" THEN <<>>
    ELSE extract_scenes(0, n, unreadable)

\* the scratch paths after get_video_scenes: download_video makes the
\* temporary directory (lines 58-59) and downloads the video into it; the
\* finally clause of extract_scenes (lines 143-148) removes the directory
scene_scratch(paths, extraction) ==
    LET temp_dir == Path("scene_tmp", 1, "")
        downloaded ==
            paths \cup {temp_dir}
                  \cup (IF extraction = "raises" THEN {}
                        ELSE {Path("scene_tmp", 1, "video.mp4")})
    IN  rmtree(downloaded, temp_dir)

\* the text the vision model writes about a frame
Description(image_data) == <<"description of", image_data>>

\* f"{scene['start_time']:.2f}s - {scene['end_time']:.2f}s"
scene_timestamp(scene) == <<scene.start_time, scene.end_time>>

\* VisionAnalyzer.analyze_image (vision_analyzer.py, lines 50-102): the dict
\* returned.  vision = "error": the image could not be encoded or the model
\* call raised, and a dict without 'analysis' is returned.
analyze_image(image_data, vision) ==
    IF vision = "described"
    THEN [success |-> TRUE, analysis |-> Description(image_data)]
    ELSE [success |-> FALSE, error |-> <<"Error analyzing image">>]

\* _analyze_single_scene: the entry of one scene.  vision = "raises": a
\* statement of the try block raises (the temporary image or output.txt
\* cannot be written) and the except clause builds the entry.
\* The underscore the source name starts with is dropped.
analyze_single_scene(scene, scene_number, vision) ==
    IF vision = "raises"
    THEN [scene_number |-> scene_number,
          timestamp |-> scene_timestamp(scene),
          analysis |-> <<"Analysis failed", "error">>]
    ELSE [scene_number |-> scene_number,
          timestamp |-> scene_timestamp(scene),
          analysis |-> Get(analyze_image(scene.image_data, vision),
                           "analysis", <<"Analysis failed">>)]

\* _analyze_single_scene, lines 60-62: the still image of the scene is
\* written to output/scene_NNN.jpg before the vision call; vision = "raises"
\* stands for this write raising.  No statement removes the file.
scene_image_written(paths, scene_number, vision) ==
    IF vision = "raises" THEN paths
    ELSE paths \cup {Path("output", scene_number, "scene.jpg")}

\* asyncio.gather(*analysis_tasks): the results in the order of the tasks,
\* whatever the order in which they completed
gather(results) == [k \in 1..Cardinality(DOMAIN results) |-> results[k]]

\* the entries in the opposite order
in_reverse_order(list) == [k \in 1..Len(list) |-> list[Len(list) + 1 - k]]

\* scene_analyses.sort(key=lambda x: x['scene_number']): a stable sort
RECURSIVE sort_by_scene_number(_)
sort_by_scene_number(list) ==
    IF list = <<>> THEN <<>>
    ELSE LET m == CHOOSE i \in DOMAIN list :
                    \A j \in DOMAIN list :
                        \/ list[i].scene_number < list[j].scene_number
                        \/ /\ list[i].scene_number = list[j].scene_number
                           /\ i <= j
             rest == [k \in 1..(Len(list) - 1) |->
                        IF k < m THEN list[k] ELSE list[k + 1]]
         IN  <<list[m]>> \o sort_by_scene_number(rest)

IdleAnalyzer == [pc |-> "idle"]

\* analyze_video, lines 103-120: the scenes are extracted and one task per
\* scene is created, numbered by enumerate
BeginAnalyzeVideo(extraction, n, unreadable) ==
    /\ analyzer.pc = "idle"
    /\ n \in 0..MaxScenes
    /\ unreadable \subseteq 0..(n - 1)
    /\ extraction = "raises" => n = 0
    /\ analyzer' = [pc |-> "gathering", extraction |-> extraction,
                    detected |-> n,
                    scenes |-> get_video_scenes(extraction, n, unreadable),
                    vision |-> <<>>, results |-> <<>>, completed |-> <<>>]
    /\ disk' = scene_scratch(disk, extraction)
    /\ UNCHANGED <<clock, faults, videos, ingestion_vars, manual_vars, whisper>>

\* one of the tasks runs to its end: task k analyzes scenes[k] under the
\* scene number k - 1
AnalyzeSingleScene(k, vision) ==
    /\ analyzer.pc = "gathering"
    /\ k \in DOMAIN analyzer.scenes
    /\ k \notin DOMAIN analyzer.results
    /\ analyzer' =
         Merge(analyzer,
               [vision |-> (k :> vision) @@ analyzer.vision,
                results |-> (k :> analyze_single_scene(analyzer.scenes[k],
                                                       k - 1, vision))
                            @@ analyzer.results,
                completed |-> Append(analyzer.completed, k)])
    /\ disk' = scene_image_written(disk, k - 1, vision)
    /\ UNCHANGED <<clock, faults, videos, ingestion_vars, manual_vars, whisper>>

\* analyze_video, lines 122-161: the tasks are awaited, their results sorted
\* and the chat model asked for the recipe.  reply = "raises": the call of
\* the chat model raises and the except clause answers.
AggregateScenes(reply) ==
    /\ analyzer.pc = "gathering"
    /\ DOMAIN analyzer.results = DOMAIN analyzer.scenes
    /\ LET scene_analyses == sort_by_scene_number(gather(analyzer.results))
       IN  analyzer' =
             Merge(analyzer,
                   [pc |-> "done", reply |-> reply,
                    result |->
                      IF reply = "raises"
                      THEN [success |-> FALSE, error |-> "error"]
                      ELSE [success |-> TRUE,
                            scene_analyses |-> scene_analyses,
                            final_recipe |-> reply]])
    /\ UNCHANGED <<clock, faults, videos, ingestion_vars, manual_vars, whisper, disk>>

(***************************************************************************)
(* WhisperExtractor (video_processing/whisper_extractor.py)                *)
(***************************************************************************)
MaxExtractions == 3

\* the value None of a variable that holds a path
NoPath == Path("", 0, "")

IdleWhisper == [pc |-> "idle", calls |-> 0]

\* extract_transcript, lines 122-126: temp_dir = None, audio_path = None,
\* and download_audio is entered
BeginExtractTranscript ==
    /\ whisper.pc = "idle"
    /\ whisper.calls < MaxExtractions
    /\ whisper' = [pc |-> "download_audio", calls |-> whisper.calls + 1,
                   temp_dir |-> NoPath, audio_path |-> NoPath]
    /\ UNCHANGED <<clock, faults, videos, ingestion_vars, manual_vars, analyzer, disk>>

\* download_audio, lines 47-79: the paths it leaves and the path it returns.
\* outcome = "mkdtemp_raises": no directory is made; "raises": yt-dlp
\* raises after the directory was made; "no_info": extract_info returns
\* nothing; "no_file": the audio is not at <id>.mp3 but under another
\* name; "audio": the mp3 is in the directory.  None is returned in every
\* case but the last, and the directory is never removed here.
download_audio(paths, call, outcome) ==
    LET temp_dir == Path("whisper_tmp", call, "")
        audio_path == Path("whisper_tmp", call, "audio.mp3")
    IN  CASE outcome = "mkdtemp_raises" ->
                [paths |-> paths, audio_path |-> NoPath]
          [] outcome = "audio" ->
                [paths |-> paths \cup {temp_dir, audio_path},
                 audio_path |-> audio_path]
          [] outcome = "no_file" ->
                [paths |-> paths \cup {temp_dir,
                                       Path("whisper_tmp", call, "audio.m4a")},
                 audio_path |-> NoPath]
          [] OTHER -> [paths |-> paths \cup {temp_dir}, audio_path |-> NoPath]

\* extract_transcript, lines 125-129: the download and the test of its result
DownloadAudio(outcome) ==
    /\ whisper.pc = "download_audio"
    /\ LET downloaded == download_audio(disk, whisper.calls, outcome)
       IN  /\ disk' = downloaded.paths
           /\ whisper' =
                IF downloaded.audio_path = NoPath
                THEN Merge(whisper, [pc |-> "finally", result |-> None])
                ELSE Merge(whisper, [pc |-> "transcribe_audio",
                                     audio_path |-> downloaded.audio_path])
    /\ UNCHANGED <<clock, faults, videos, ingestion_vars, manual_vars, analyzer>>

\* extract_transcript, lines 131-137: transcribe_audio returns the response
\* of the Whisper API, or None when the call raised
TranscribeAudio(ok) ==
    /\ whisper.pc = "transcribe_audio"
    /\ whisper' = Merge(whisper, [pc |-> "finally",
                                  result |-> IF ok THEN [text |-> "transcript"]
                                             ELSE None])
    /\ UNCHANGED <<clock, faults, videos, ingestion_vars, manual_vars, analyzer, disk>>

\* the finally clause of extract_transcript, lines 143-158: the audio file
\* is removed when audio_path is set; the directory is removed when
\* temp_dir is set, the local of extract_transcript that nothing assigns
CleanUpTranscript ==
    /\ whisper.pc = "finally"
    /\ LET without_audio ==
               IF whisper.audio_path # NoPath
               THEN disk \ {whisper.audio_path} ELSE disk
       IN  disk' = IF whisper.temp_dir # NoPath
                   THEN rmtree(without_audio, whisper.temp_dir)
                   ELSE without_audio
    /\ whisper' = [pc |-> "idle", calls |-> whisper.calls,
                   result |-> whisper.result]
    /\ UNCHANGED <<clock, faults, videos, ingestion_vars, manual_vars, analyzer>>

Init ==
    /\ clock = 1
    /\ faults = 0
    /\ videos = <<>>
    /\ recipes = <<>>
    /\ recipe_items = <<>>
    /\ nutrition = <<>>
    /\ recipe_logs = <<>>
    /\ run = Idle
    /\ runs_started = 0
    /\ manual_recipe_logs = <<>>
    /\ calls = {}
    /\ calls_started = 0
    /\ last_call = NoCall
    /\ analyzer = IdleAnalyzer
    /\ whisper = IdleWhisper
    /\ disk = {}

\* the steps of AddRecipeService.create_recipe_log
IngestionNext ==
    \/ \E u \in Urls, e \in BOOLEAN, up \in BOOLEAN,
          f \in {"none", "video", "log"} : StartRun(u, e, up, f)
    \/ \E o \in {"text", "none"}, f \in BOOLEAN, h \in BOOLEAN :
          ProcessTranscription(o, f, h)
    \/ \E o \in {"recipe", "empty", "failed"}, t \in BOOLEAN, h \in BOOLEAN :
          ProcessVideoAnalysis(o, t, h)
    \/ \E resp \in PipelineResponses, id \in {None} \cup DOMAIN videos,
          f \in {"none", "query", "update"}, h \in BOOLEAN :
          \E k \in 0..StoreWrites(resp) : GenerateRecipe(resp, id, k, f, h)
    \/ \E p \in BOOLEAN, ings \in PipelineIngredients,
          id \in {None} \cup DOMAIN videos,
          f \in {"none", "lookup", "set", "update"}, h \in BOOLEAN :
          ProcessNutrition(p, ings, id, f, h)

\* the calls of ManualRecipeService
ManualNext ==
    \/ \E p \in Prompts, f \in BOOLEAN : ManualCreateRecipeLog(p, f)
    \/ \E op \in {"generate_initial_recipe", "update_recipe", "confirm_recipe"},
          l \in 1..MaxManualLogs, u \in UpdateArgs : BeginCall(op, l, u)
    \/ \E c \in calls, r \in BOOLEAN, n \in IngredientCounts, i \in BOOLEAN,
          f \in BOOLEAN : EndGenerateInitialRecipe(c, r, n, i, f)
    \/ \E c \in calls, r \in BOOLEAN, i \in BOOLEAN, f \in BOOLEAN :
          EndUpdateRecipe(c, r, i, f)
    \/ \E c \in calls, nu \in BOOLEAN, im \in {"all", "skipped", "error"},
          a \in BOOLEAN, f \in {"none", "video", "update"} :
          EndConfirmRecipe(c, nu, im, a, f)

\* no request of the other service has been made
IngestionUnused == runs_started = 0

ManualUnused == manual_recipe_logs = <<>> /\ calls_started = 0
                  /\ last_call = NoCall

\* No query of one service matches a document of the other: a behaviour
\* exercises one of them.
Next ==
    \/ ManualUnused /\ IngestionNext
    \/ IngestionUnused /\ ManualNext

Spec == Init /\ [][Next]_vars

\* the calls of AddRecipeService.create_recipe_log alone
IngestionSpec == Init /\ [][IngestionNext]_vars

\* the calls of ManualRecipeService alone
ManualSpec == Init /\ [][ManualNext]_vars

\* the responses of the model to the structuring prompt: the recipe header
\* whole or without one of its keys, and a list of items, each whole or
\* without one of its keys
ItemCounts == {0, 1, 2}

GeneratorHeaders ==
    { [k \in keys |-> RecipeHeader[k]] :
        keys \in {required_recipe_keys} \cup
                 { required_recipe_keys \ {k} : k \in required_recipe_keys } }

GeneratorItems ==
    { RecipeItem(IntVal(1)), RecipeItem(IntVal(2)),
      [instruction |-> "instruction"], [stepOrder |-> IntVal(1)] }

GeneratorResponses ==
    { [parses |-> TRUE, data |-> [recipe |-> h, recipeItems |-> items]] :
        h \in GeneratorHeaders,
        items \in UNION { [1..n -> GeneratorItems] : n \in ItemCounts } }

\* runs whose earlier steps succeed and whose recipe generation receives any
\* of the responses above, one of its store writes possibly raising
GeneratorNext ==
    \/ \E u \in Urls, up \in BOOLEAN : StartRun(u, TRUE, up, "none")
    \/ ProcessTranscription("text", FALSE, FALSE)
    \/ ProcessVideoAnalysis("recipe", FALSE, FALSE)
    \/ \E resp \in GeneratorResponses, id \in {None} \cup DOMAIN videos :
           \E k \in 0..StoreWrites(resp) : GenerateRecipe(resp, id, k, "none", FALSE)
    \/ \E id \in {None} \cup DOMAIN videos :
           ProcessNutrition(TRUE, <<Ingredient("rice", 1)>>, id, "none", FALSE)

GeneratorSpec == Init /\ [][GeneratorNext]_vars

\* one call of VideoRecipeAnalyzer.analyze_video
AnalyzerNext ==
    \/ \E e \in {"scenes", "raises"}, n \in 0..MaxScenes,
          unreadable \in SUBSET (0..(MaxScenes - 1)) :
           BeginAnalyzeVideo(e, n, unreadable)
    \/ \E k \in 1..MaxScenes, v \in {"described", "error", "raises"} :
           AnalyzeSingleScene(k, v)
    \/ \E reply \in {"recipe text", "", "raises"} : AggregateScenes(reply)

AnalyzerSpec == Init /\ [][AnalyzerNext]_vars

\* calls of WhisperExtractor.extract_transcript, one after the other
WhisperNext ==
    \/ BeginExtractTranscript
    \/ \E o \in {"audio", "raises", "no_info", "no_file", "mkdtemp_raises"} :
           DownloadAudio(o)
    \/ \E ok \in BOOLEAN : TranscribeAudio(ok)
    \/ CleanUpTranscript

WhisperSpec == Init /\ [][WhisperNext]_vars

\* create_recipe_log runs whose earlier steps succeed, with every parsed
\* ingredient list as the outcome of the nutrition model call
NutritionNext ==
    \/ \E u \in Urls, up \in BOOLEAN : StartRun(u, TRUE, up, "none")
    \/ ProcessTranscription("text", FALSE, FALSE)
    \/ ProcessVideoAnalysis("recipe", FALSE, FALSE)
    \/ \E resp \in PipelineResponses, id \in {None} \cup DOMAIN videos :
          GenerateRecipe(resp, id, 0, "none", FALSE)
    \/ \E p \in BOOLEAN, ings \in NutritionIngredientLists,
          id \in {None} \cup DOMAIN videos,
          f \in {"none", "update"} :
          ProcessNutrition(p, ings, id, f, FALSE)

NutritionSpec == Init /\ [][NutritionNext]_vars

(***************************************************************************)
(* Properties of the ingestion run                                         *)
(***************************************************************************)
\* the Recipe Log of the run in progress or just ended
HasLog == "log_id" \in DOMAIN run /\ run.log_id # None

RunLog == recipe_logs[run.log_id]

RunSteps == RunLog.processingSteps

\* the entries of a step in a list of processingSteps
EntriesOf(steps, name) == { i \in DOMAIN steps : steps[i].step = name }

\* the scene analysis of the run returned a usable recipe text
SceneAnalysisUsable ==
    /\ "scene_result" \in DOMAIN run
    /\ Get(run.scene_result, "success", FALSE)
    /\ Get(run.scene_result, "final_recipe", "") # ""

\* the documents the run has written to 'recipes', 'recipe_items', 'nutrition'
RunRecipes == { i \in DOMAIN recipes : i > run.recipes0 }

RunRecipeItems == { i \in DOMAIN recipe_items : i > run.recipe_items0 }

RunNutrition == { i \in DOMAIN nutrition : i > run.nutrition0 }

\* the order of the pipeline stages; 0 for any other value
StatusRank(status) ==
    CASE status = "processing" -> 1
      [] status = "transcribed" -> 2
      [] status = "analyzed" -> 3
      [] status = "completed" -> 4
      [] OTHER -> 0

IsPrefix(s, t) == Len(s) <= Len(t) /\ \A i \in DOMAIN s : s[i] = t[i]

\* C1: every write to the persisted status of a Recipe Log keeps it, moves it
\* forward in processing < transcribed < analyzed < completed, or sets error.
C1_StatusNeverRegresses ==
    [][\A l \in DOMAIN recipe_logs :
          LET old == Get(recipe_logs[l], "status", "missing")
              new == Get(recipe_logs'[l], "status", "missing")
          IN \/ new = old
             \/ new = "error"
             \/ StatusRank(old) >= 1 /\ StatusRank(new) > StatusRank(old)]_vars

\* a run whose transcription step failed and whose status was then written
C1_Witness ==
    /\ HasLog
    /\ RunLog.status = "completed"
    /\ \E i \in DOMAIN RunSteps : RunSteps[i].status = "failed"

\* C2: the persisted status is completed only when nutrition estimation
\* succeeded and a Nutrition Record of the run was persisted.
C2_CompletedOnlyWithNutrition ==
    HasLog /\ RunLog.status = "completed" =>
        /\ Get(run, "nutrition_calls", 0) = 1
        /\ Get(run.nutrition_result, "success", FALSE)
        /\ RunNutrition # {}

\* C3: a run whose scene analysis returned success false or an empty recipe
\* text ends with the persisted status analyzed, no Recipe or Nutrition
\* Record, and an entry of the scene-analysis step in processingSteps.
C3_UnusableAnalysisSettlesAtAnalyzed ==
    HasLog /\ run.pc = "returned" /\ ~SceneAnalysisUsable =>
        /\ RunLog.status = "analyzed"
        /\ RunRecipes = {} /\ RunNutrition = {}
        /\ EntriesOf(RunSteps, "video_analysis") # {}

\* C4: every Recipe and Nutrition Record of a run carries the id of the Video
\* the run created, the videoId of its Recipe Log.
C4_RecordsLinkedToRunVideo ==
    HasLog =>
        /\ \A i \in RunRecipes : recipes[i].videoId = RunLog.videoId
        /\ \A i \in RunNutrition : nutrition[i].videoId = RunLog.videoId

\* the steps the run has executed so far, from its locals
Executed(name) ==
    CASE name = "metadata_extraction" -> HasLog
      [] name = "transcription" -> HasLog /\ "transcript" \in DOMAIN run
      [] name = "video_analysis" -> HasLog /\ "scene_result" \in DOMAIN run
      [] name = "recipe_generation" ->
            HasLog /\ Get(run, "generate_calls", 0) = 1
      [] name = "nutrition_analysis" ->
            HasLog /\ Get(run, "nutrition_calls", 0) = 1

StepNames == {"metadata_extraction", "transcription", "video_analysis",
              "recipe_generation", "nutrition_analysis"}

StepFailed(e) == e.status = "failed" \/ ~Get(e, "success", TRUE)

\* C5: each executed step has exactly one entry in processingSteps, every
\* entry has a timestamp and a success flag, a failed entry has the error.
C5_OneWellFormedEntryPerStep ==
    HasLog /\ run.pc = "returned" =>
        /\ \A name \in StepNames :
              Executed(name) => Cardinality(EntriesOf(RunSteps, name)) = 1
        /\ \A i \in DOMAIN RunSteps :
              /\ {"timestamp", "success"} \subseteq DOMAIN RunSteps[i]
              /\ StepFailed(RunSteps[i]) =>
                    Get(RunSteps[i], "error", "None") # "None"

\* the transcription of the run returned None or raised
TranscriptionFailed ==
    /\ "transcript" \in DOMAIN run
    /\ run.transcript = "none" \/ run.transcription_raised

\* the except clause of the step in progress could not write to the store
AbortedByStore == run.pc = "raised" /\ faults >= 1

\* C6: a failed transcription is recorded as a failed step with an empty
\* transcript and the scene analysis follows; a failed scene analysis is
\* recorded and create_recipe_log returns; the run raises only when the
\* store rejects a write of an except clause.
C6_FailuresDoNotAbort ==
    /\ HasLog /\ TranscriptionFailed /\ ~AbortedByStore =>
          /\ \E i \in EntriesOf(RunSteps, "transcription") :
                StepFailed(RunSteps[i])
          /\ RunLog.transcription.text = ""
          /\ run.pc = "video_analysis" \/ "scene_result" \in DOMAIN run
    /\ HasLog /\ "scene_result" \in DOMAIN run
          /\ ~run.scene_result.success /\ ~AbortedByStore =>
          /\ \E i \in EntriesOf(RunSteps, "video_analysis") :
                StepFailed(RunSteps[i])
          /\ run.pc = "returned"
    /\ HasLog /\ run.pc = "raised" => faults >= 1

\* a run returned after both its transcription and its scene analysis failed
C6_Witness ==
    /\ HasLog /\ run.pc = "returned"
    /\ TranscriptionFailed
    /\ ~run.scene_result.success
    /\ faults = 0

\* C7: without a successful scene analysis with recipe text, neither
\* generate_recipe_data nor analyze_recipe_nutrition is called and the run
\* writes no Recipe, Recipe Step or Nutrition Record.
C7_GenerationNeedsRecipeText ==
    HasLog /\ ~SceneAnalysisUsable =>
        /\ run.generate_calls = 0 /\ run.nutrition_calls = 0
        /\ RunRecipes = {} /\ RunRecipeItems = {} /\ RunNutrition = {}

\* a run returned after a scene analysis with success true and no text
C7_Witness ==
    /\ HasLog /\ run.pc = "returned"
    /\ run.scene_result.success /\ run.scene_result.final_recipe = ""

\* C8: in both pipelines the processingSteps of a log before a step are a
\* prefix of its processingSteps after the step.
C8_ProcessingStepsAppendOnly ==
    [][/\ \A l \in DOMAIN recipe_logs :
             IsPrefix(recipe_logs[l].processingSteps,
                      recipe_logs'[l].processingSteps)
       /\ \A l \in DOMAIN manual_recipe_logs :
             IsPrefix(manual_recipe_logs[l].processingSteps,
                      manual_recipe_logs'[l].processingSteps)]_vars

\* a manual log after generate_initial_recipe, update_recipe, confirm_recipe
C8_Witness ==
    \E l \in DOMAIN manual_recipe_logs :
        LET steps == manual_recipe_logs[l].processingSteps
        IN /\ EntriesOf(steps, "initial_generation") # {}
           /\ EntriesOf(steps, "update_generation") # {}
           /\ EntriesOf(steps, "final_generation") # {}

\* C9: when create_recipe_log raises after the Recipe Log exists, the
\* persisted status is error.
C9_RaisedRunHasStatusError ==
    HasLog /\ run.pc = "raised" => RunLog.status = "error"

\* C10: when metadata extraction yields an empty mapping the run continues
\* with empty metadata values and its metadata_extraction entry has success
\* false.
C10_EmptyMetadataRecordedAsFailure ==
    HasLog /\ ~run.extracted =>
        /\ RunLog.metadata.title = ""
        /\ \A i \in EntriesOf(RunSteps, "metadata_extraction") :
              RunSteps[i].success = FALSE

(***************************************************************************)
(* Properties of the manual recipe flow                                    *)
(***************************************************************************)
\* the order of the states of a manual recipe log; 0 for any other value
ManualStatusRank(status) ==
    CASE status = "processing" -> 1
      [] status = "initial_generated" -> 2
      [] status = "updated" -> 3
      [] status = "completed" -> 4
      [] OTHER -> 0

\* the call of operation op that ends in this step
EndingCall(op) ==
    CHOOSE c \in calls : c.op = op /\ calls' = calls \ {c}

Ends(op) == \E c \in calls : c.op = op /\ calls' = calls \ {c}

\* a field of a document, EmptyDict when the key is absent
Field(doc, key) == Get(doc, key, EmptyDict)

\* C11: no call moves the persisted status of a manual recipe log from a
\* later state of processing -> initial_generated -> updated -> completed
\* back to an earlier one.
C11_ManualStatusNeverRegresses ==
    [][\A l \in DOMAIN manual_recipe_logs :
          ManualStatusRank(manual_recipe_logs'[l].status)
              >= ManualStatusRank(manual_recipe_logs[l].status)]_vars

\* a call of update_recipe or confirm_recipe, made on a completed log,
\* ends in this step
EndsOnCompleted(c) ==
    /\ c \in calls
    /\ c.op \in {"update_recipe", "confirm_recipe"}
    /\ c.log_data.status = "completed"
    /\ calls' = calls \ {c}

\* C12: confirm_recipe publishes at most one Video per manual log (never
\* more Videos than logs), and an update_recipe or confirm_recipe call made
\* on a completed log publishes no Video and leaves the recipe, mealImage
\* and video of the log unchanged.
C12_ConfirmationIsOneShot ==
    [][/\ Len(videos') <= Len(manual_recipe_logs')
       /\ \A c \in calls :
             EndsOnCompleted(c) =>
                 /\ videos' = videos
                 /\ Field(manual_recipe_logs'[c.log_id], "recipe")
                       = Field(manual_recipe_logs[c.log_id], "recipe")
                 /\ Field(manual_recipe_logs'[c.log_id], "mealImage")
                       = Field(manual_recipe_logs[c.log_id], "mealImage")
                 /\ Field(manual_recipe_logs'[c.log_id], "video")
                       = Field(manual_recipe_logs[c.log_id], "video")]_vars

\* the log a confirm_recipe call has just completed
JustConfirmed ==
    /\ last_call.op = "confirm_recipe"
    /\ last_call.outcome = "returned"

\* C13: confirm_recipe returns, and the log becomes completed, only when
\* the nutrition estimation succeeded and every ingredient has its image.
C13_ConfirmFailuresAreRaised ==
    JustConfirmed =>
        LET log == manual_recipe_logs[last_call.log_id]
        IN /\ log.nutrition.success
           /\ Len(log.ingredientImages)
                 = Len(last_call.response.recipe.ingredients)

\* C14: update_recipe leaves the persisted mealImage unchanged without
\* image_updates, the persisted recipe unchanged without recipe_updates,
\* and prompt, userId and status unchanged in every case.
C14_UpdateReplacesOnlyNamedFields ==
    [][Ends("update_recipe") =>
          LET c == EndingCall("update_recipe")
              old == manual_recipe_logs[c.log_id]
              new == manual_recipe_logs'[c.log_id]
          IN /\ "image_updates" \notin DOMAIN c.updates =>
                    Field(new, "mealImage") = Field(old, "mealImage")
             /\ "recipe_updates" \notin DOMAIN c.updates =>
                    Field(new, "recipe") = Field(old, "recipe")
             /\ new.prompt = old.prompt
             /\ new.userId = old.userId
             /\ new.status = old.status]_vars

\* an update with only recipe_updates has replaced the recipe of a log that
\* holds a generated meal image
C14_Witness ==
    /\ last_call.op = "update_recipe"
    /\ last_call.outcome = "returned"
    /\ LET log == manual_recipe_logs[last_call.log_id]
       IN /\ Len(Get(log.recipe, "title", <<>>)) = 2
          /\ Len(Get(log.mealImage, "prompt", <<>>)) = 1

\* C15: a log with status initial_generated holds a recipe generated with
\* success and a meal image with a URL.
C15_InitialGeneratedIsPopulated ==
    \A l \in DOMAIN manual_recipe_logs :
        manual_recipe_logs[l].status = "initial_generated" =>
            /\ Get(manual_recipe_logs[l].recipe, "success", FALSE)
            /\ "url" \in DOMAIN manual_recipe_logs[l].mealImage

\* the log changed after call c read it
Stale(c) == manual_recipe_logs[c.log_id] # c.log_data

\* the fields of the log an update_recipe call regenerates
Named(updates) ==
    (IF "recipe_updates" \in DOMAIN updates THEN {"recipe"} ELSE {})
        \cup (IF "image_updates" \in DOMAIN updates THEN {"mealImage"} ELSE {})

\* C16: an update_recipe call that returns after another call wrote the log
\* meanwhile persists its own regenerated fields, keeps every other field
\* as the other call left it, and appends its processingSteps entry after
\* the entries already stored.
C16_ConcurrentUpdatesDoNotClobber ==
    [][\A c \in calls :
          /\ c.op = "update_recipe"
          /\ calls' = calls \ {c}
          /\ Stale(c)
          /\ last_call'.outcome = "returned"
          => LET old == manual_recipe_logs[c.log_id]
                 new == manual_recipe_logs'[c.log_id]
             IN /\ \A k \in DOMAIN old \ ({"updatedAt", "processingSteps"}
                                            \cup Named(c.updates)) :
                       k \in DOMAIN new /\ new[k] = old[k]
                /\ new.processingSteps =
                       Append(old.processingSteps,
                              manual_step("update_generation", c.now))
                /\ "recipe" \in Named(c.updates) =>
                       new.recipe = last_call'.response.recipe
                /\ "mealImage" \in Named(c.updates) =>
                       new.mealImage = last_call'.response.mealImage]_vars

\* two update_recipe calls overlapped (the one that read the log first
\* wrote last), one regenerated the recipe and the other the meal image
C16_Witness ==
    \E l \in DOMAIN manual_recipe_logs :
        LET log == manual_recipe_logs[l]
            steps == log.processingSteps
        IN /\ \E i, j \in EntriesOf(steps, "update_generation") :
                 i < j /\ steps[i].timestamp > steps[j].timestamp
           /\ Cardinality(EntriesOf(steps, "update_generation")) = 2
           /\ Get(Field(log, "recipe"), "title", <<>>)
                 = <<"stir fry", "vegan">>
           /\ Get(Field(log, "mealImage"), "prompt", <<>>)
                 = <<"stir fry", "brighter">>

(***************************************************************************)
(* Properties of the nutrition estimation                                  *)
(***************************************************************************)
\* ingredients[1][field] + ... + ingredients[n][field]
RECURSIVE TotalUpTo(_, _, _)
TotalUpTo(ingredients, field, n) ==
    IF n = 0 THEN 0
    ELSE TotalUpTo(ingredients, field, n - 1) + ingredients[n][field]

\* analyze_recipe_nutrition returned success with a non-empty ingredient list
NutritionEstimated ==
    /\ HasLog
    /\ run.nutrition_calls = 1
    /\ run.nutrition_result.success
    /\ run.nutrition_result.nutrition_info.ingredients # <<>>

\* C17: when analyze_recipe_nutrition returns success with a non-empty
\* ingredient list, each of its five totals is the sum of the field over
\* the ingredients, and the Nutrition Record process_nutrition wrote has
\* these totals and ingredients.
C17_TotalsAreSumsOfIngredients ==
    NutritionEstimated =>
        LET info == run.nutrition_result.nutrition_info
            n == Len(info.ingredients)
        IN /\ \A f \in NutritionFields :
                 info[f] = TotalUpTo(info.ingredients, f, n)
           /\ run.nutrition_id # None =>
                 /\ \A f \in NutritionFields :
                       nutrition[run.nutrition_id][f]
                           = TotalUpTo(info.ingredients, f, n)
                 /\ nutrition[run.nutrition_id].ingredients = info.ingredients

\* a Nutrition Record written for two ingredients with different values
C17_Witness ==
    /\ NutritionEstimated
    /\ run.nutrition_id # None
    /\ nutrition[run.nutrition_id].ingredients
          = <<Ingredient("rice", 1), Ingredient("egg", 2)>>
    /\ nutrition[run.nutrition_id].calories = 30

(***************************************************************************)
(* Properties of the recipe structuring                                    *)
(***************************************************************************)
\* the response has no recipe title, summary or additionalNotes, or one of
\* its items has no stepOrder or no instruction
Lacking(response) ==
    \/ \E k \in {"title", "summary", "additionalNotes"} :
           k \notin DOMAIN response.data.recipe
    \/ \E i \in DOMAIN response.data.recipeItems :
           \E k \in {"stepOrder", "instruction"} :
               k \notin DOMAIN response.data.recipeItems[i]

\* the step is the recipe generation of the run receiving the response
GeneratingFrom(response) ==
    \E id \in {None} \cup DOMAIN videos :
        GenerateRecipe(response, id, 0, "none", FALSE)

\* C18: generate_recipe_data answers a response without recipe.title,
\* recipe.summary or recipe.additionalNotes, or with an item without
\* stepOrder or instruction, with success false, and the step that received
\* it leaves the Recipes and the Recipe Steps as they were and records no
\* structured recipe.
C18_IncompleteResponsesRejected ==
    [][\A response \in GeneratorResponses :
         Lacking(response) /\ GeneratingFrom(response) =>
           /\ \A id \in {None} \cup DOMAIN videos :
                ~generate_recipe_data(response, id, clock, 0,
                                      recipes, recipe_items).result.success
           /\ recipes' = recipes
           /\ recipe_items' = recipe_items
           /\ "structured_recipe" \notin DOMAIN run'.analysis]_vars

\* the recipe generation of a run has recorded a failure and stored nothing
C18_Witness ==
    /\ HasLog /\ run.pc = "nutrition" /\ run.generate_calls = 1
    /\ "structured_recipe" \notin DOMAIN run.analysis
    /\ RunRecipes = {} /\ RunRecipeItems = {}

(***************************************************************************)
(* Properties of the scene analysis                                        *)
(***************************************************************************)
AnalyzerDone == analyzer.pc = "done"

\* C19: when the extraction of the scenes has raised, analyze_video returns
\* success false with an error and neither scene analyses nor recipe text,
\* and process_video_analysis finds no recipe in what it returned.
C19_ExtractionFailureIsReported ==
    AnalyzerDone /\ analyzer.extraction = "raises" =>
        /\ ~analyzer.result.success
        /\ "error" \in DOMAIN analyzer.result
        /\ "scene_analyses" \notin DOMAIN analyzer.result
        /\ "final_recipe" \notin DOMAIN analyzer.result
        /\ ~HasRecipe(analysis_data(analyzer.result, clock))

Placeholder(analysis) == Head(analysis) = "Analysis failed"

\* C20: whichever scenes fail and in whichever order the tasks complete, an
\* analyze_video whose chat model replied returns one entry per extracted
\* scene, in increasing scene_number, the entry of a scene whose analysis
\* failed holding an "Analysis failed" placeholder and every other entry the
\* description of its own scene.
C20_SceneFailuresIsolatedAndOrdered ==
    AnalyzerDone /\ analyzer.reply # "raises" =>
        /\ analyzer.result.success
        /\ LET entries == analyzer.result.scene_analyses
           IN  /\ Len(entries) = Len(analyzer.scenes)
               /\ \A k \in DOMAIN entries :
                    /\ entries[k].scene_number = k - 1
                    /\ entries[k].timestamp
                         = scene_timestamp(analyzer.scenes[k])
                    /\ IF analyzer.vision[k] = "described"
                       THEN entries[k].analysis
                              = Description(analyzer.scenes[k].image_data)
                       ELSE Placeholder(entries[k].analysis)

\* three scenes completed last to first, the middle one failed
C20_Witness ==
    /\ AnalyzerDone /\ analyzer.reply = "recipe text"
    /\ analyzer.completed = <<3, 2, 1>>
    /\ analyzer.vision[1] = "described" /\ analyzer.vision[2] = "error"
    /\ analyzer.vision[3] = "described"
    /\ analyzer.result.scene_analyses[2].analysis = <<"Analysis failed">>

(***************************************************************************)
(* Properties of the persisted recipes                                     *)
(***************************************************************************)
\* the Recipe Steps that reference a Recipe
StepsOf(recipe_id) ==
    { i \in DOMAIN recipe_items : recipe_items[i].recipeId = recipe_id }

\* C24: the Recipe Steps of every persisted Recipe carry the stepOrder values
\* 1..n, n being their number, each once.
C24_StepOrdersContiguousFromOne ==
    \A r \in DOMAIN recipes :
        /\ Cardinality({ recipe_items[i].stepOrder : i \in StepsOf(r) })
             = Cardinality(StepsOf(r))
        /\ { recipe_items[i].stepOrder : i \in StepsOf(r) }
             = 1..Cardinality(StepsOf(r))

\* the recipe generation of the run has been called and has answered
Generated == HasLog /\ run.generate_calls = 1 /\ "analysis" \in DOMAIN run

\* C29: after a generate_recipe_data that returned success false no Recipe
\* and no Recipe Step written by the call remains; after one that returned
\* success true the Recipe and one Recipe Step per returned item exist.
C29_GenerationIsAllOrNothing ==
    Generated =>
        IF "structured_recipe" \in DOMAIN run.analysis
        THEN /\ Cardinality(RunRecipes) = 1
             /\ \A r \in RunRecipes :
                  /\ r = run.analysis.structured_recipe.recipe.recipeId
                  /\ Cardinality(StepsOf(r))
                       = Len(run.analysis.structured_recipe.recipeItems)
        ELSE RunRecipes = {} /\ RunRecipeItems = {}

(***************************************************************************)
(* Properties of the response of create_recipe_log                         *)
(***************************************************************************)
\* C26: when create_recipe_log has returned, the status and the
\* processingSteps of its response are those of the Recipe Log it persisted.
C26_ResponseAgreesWithLog ==
    HasLog /\ run.pc = "returned" =>
        /\ run.response.status = RunLog.status
        /\ run.response.processingSteps = RunLog.processingSteps

(***************************************************************************)
(* Properties of failing and interleaved manual calls                      *)
(***************************************************************************)
\* C27: an update_recipe whose recipe regeneration returned success false
\* leaves the persisted recipe of the log as it was, and one whose image
\* regeneration returned success false leaves the persisted mealImage as it
\* was.
C27_FailedRegenerationKeepsContent ==
    [][\A c \in calls, ok \in BOOLEAN, fault \in BOOLEAN :
          /\ EndUpdateRecipe(c, FALSE, ok, fault) =>
                Field(manual_recipe_logs'[c.log_id], "recipe")
                   = Field(manual_recipe_logs[c.log_id], "recipe")
          /\ EndUpdateRecipe(c, ok, FALSE, fault) =>
                Field(manual_recipe_logs'[c.log_id], "mealImage")
                   = Field(manual_recipe_logs[c.log_id], "mealImage")]_vars

\* a call of update_recipe or confirm_recipe, made on a log that
\* generate_initial_recipe has not populated yet, ends in this step
EndsOnUnpopulated(c) ==
    /\ c \in calls
    /\ c.op \in {"update_recipe", "confirm_recipe"}
    /\ "recipe" \notin DOMAIN c.log_data
    /\ "mealImage" \notin DOMAIN c.log_data
    /\ calls' = calls \ {c}

\* a call of update_recipe or confirm_recipe is made on a log id that does
\* not exist
CallsMissingLog ==
    \E op \in {"update_recipe", "confirm_recipe"},
       l \in 1..MaxManualLogs, u \in UpdateArgs :
        ~Exists(l) /\ BeginCall(op, l, u)

\* C30: an update_recipe or confirm_recipe call on a log without recipe and
\* mealImage, or on a log id that does not exist, raises, modifies no field
\* of any log and creates no Video.
C30_FailedCallsLeaveLogsUnchanged ==
    [][/\ \A c \in calls :
            EndsOnUnpopulated(c) =>
                /\ last_call'.outcome = "raised"
                /\ manual_recipe_logs' = manual_recipe_logs
                /\ videos' = videos
       /\ CallsMissingLog =>
                /\ last_call'.outcome = "raised"
                /\ manual_recipe_logs' = manual_recipe_logs
                /\ videos' = videos]_vars

\* a confirm_recipe call completes its log in this step, every call that
\* wrote to the log since the confirm read it being an update_recipe
ConfirmEndsAmongUpdates(c) ==
    /\ c \in calls
    /\ c.op = "confirm_recipe"
    /\ calls' = calls \ {c}
    /\ last_call'.outcome = "returned"
    /\ LET steps == manual_recipe_logs[c.log_id].processingSteps
       IN  \A i \in DOMAIN steps :
              i > Len(c.log_data.processingSteps) =>
                  steps[i].step = "update_generation"

\* an update_recipe call ends in this step on a log that is completed
UpdateEndsOnCompletedLog(c) ==
    /\ c \in calls
    /\ c.op = "update_recipe"
    /\ calls' = calls \ {c}
    /\ manual_recipe_logs[c.log_id].status = "completed"

\* C28: when a confirm_recipe interleaved with update_recipe calls completes
\* a log, the persisted recipe and mealImage are the ones the call read and
\* generated the nutrition, ingredient images and video from, and an
\* update_recipe that ends after it leaves them as they are.
C28_CompletedLogIsSelfConsistent ==
    [][\A c \in calls :
          /\ ConfirmEndsAmongUpdates(c) =>
                /\ Field(manual_recipe_logs'[c.log_id], "recipe")
                      = c.log_data.recipe
                /\ Field(manual_recipe_logs'[c.log_id], "mealImage")
                      = c.log_data.mealImage
          /\ UpdateEndsOnCompletedLog(c) =>
                /\ Field(manual_recipe_logs'[c.log_id], "recipe")
                      = Field(manual_recipe_logs[c.log_id], "recipe")
                /\ Field(manual_recipe_logs'[c.log_id], "mealImage")
                      = Field(manual_recipe_logs[c.log_id], "mealImage")]_vars

\* C23: after a confirm_recipe that returned, the Video created for the log
\* has the URL of the uploaded slideshow and, for a recipe of n ingredients,
\* the duration (n + 2) * duration_per_image, which is also the duration the
\* video field of the log reports.
C23_VideoDurationCountsHeroTwice ==
    JustConfirmed =>
        LET log == manual_recipe_logs[last_call.log_id]
            video == videos[log.videoId]
            n == Len(last_call.response.recipe.ingredients)
        IN  /\ video.videoUrl = log.video.videoUrl
            /\ video.duration = (n + 2) * duration_per_image
            /\ video.duration = log.video.duration

(***************************************************************************)
(* Properties of the scratch files and of the extracted scenes             *)
(***************************************************************************)
\* extract_transcript has returned
TranscriptReturned == whisper.pc = "idle" /\ whisper.calls > 0

\* C21: after extract_transcript has returned, neither a scratch directory
\* made for the download nor an audio file in it exists.
C21_TranscriptScratchRemoved ==
    TranscriptReturned => \A p \in disk : p.dir # "whisper_tmp"

\* C22: after analyze_video has returned, the downloaded video, its
\* temporary directory and the still images written for the vision calls
\* are gone.
C22_AnalysisScratchRemoved ==
    AnalyzerDone => \A p \in disk : p.dir \notin {"scene_tmp", "output"}

\* C25: the scenes extract_scenes returns carry the scene_number values
\* 0..k-1 in list order, and 0 <= start_time < end_time holds for each.
C25_SceneNumbersContiguous ==
    analyzer.pc # "idle" =>
        \A k \in DOMAIN analyzer.scenes :
            /\ analyzer.scenes[k].scene_number = k - 1
            /\ 0 <= analyzer.scenes[k].start_time
            /\ analyzer.scenes[k].start_time < analyzer.scenes[k].end_time

====
